---- MODULE Spec2Model ----
(***************************************************************************)
(* Mnemonic normalisation, language detection and fuzzy correction of      *)
(* packages/sdk/utils/src/account.ts.                                      *)
(*                                                                         *)
(* A text is a sequence of characters, a character is a one-element        *)
(* string, a word is a text without whitespace.  The word lists are the    *)
(* data of the bip39 package; here each language has a list of a few       *)
(* short words that keeps the features of the real lists the code depends  *)
(* on: lists are duplicate free, some words belong to two languages, some  *)
(* Latin words carry accents.                                              *)
(***************************************************************************)
EXTENDS Integers, Sequences, FiniteSets, TLC

VARIABLES
    pc,          \* where the call stands
    mnemonic,    \* argument: the phrase text
    language,    \* argument: a language, or Undefined
    tokens,      \* argument of detectLanguage: the words
    candidates,  \* argument of detectLanguage: Omitted or Given(list)
    result,      \* what detectLanguage returned
    normalized,  \* what normalizeMnemonic returned
    words,       \* suggestCorrections: const words
    lang,        \* suggestCorrections: const lang
    pending,     \* what the suspended combineSuggestions generator has yet to give
    emitted,     \* the replacement lists drawn from it so far
    yielded      \* the phrases suggestCorrections has yielded so far

vars == <<pc, mnemonic, language, tokens, candidates, result, normalized,
          words, lang, pending, emitted, yielded>>

\* Longest phrase (in words) the explored inputs have.
MaxWords == 3
\* Longest explicit candidate list given to detectLanguage.
MaxCandidates == 2

\* The value of an omitted argument and of "no language detected".
Undefined == "undefined"

\* Number.POSITIVE_INFINITY, the default of maxWeight.
Infinity == 1000

-----------------------------------------------------------------------------
(* Characters *)

Space == " "
\* U+3000 IDEOGRAPHIC SPACE
IdeographicSpace == "U+3000"
\* the characters the regular expression \s matches
Whitespace == {Space, IdeographicSpace}

\* "a'" is the letter a with an acute accent
AcuteA == "a'"

\* String.prototype.toLowerCase on one character
LowerChar(c) == IF c = "A" THEN "a" ELSE IF c = "B" THEN "b" ELSE c

\* normalizeAccents on one character: NFD, then the combining marks removed
StripChar(c) == IF c = AcuteA THEN "a" ELSE c

ToLowerCase(word) == [i \in 1..Len(word) |-> LowerChar(word[i])]

NormalizeAccents(word) == [i \in 1..Len(word) |-> StripChar(word[i])]

-----------------------------------------------------------------------------
(* Word lists *)

MnemonicLanguages ==
    {"chinese_simplified", "chinese_traditional", "english", "french", "italian",
     "japanese", "korean", "spanish", "portuguese"}

getAllLanguages ==
    <<"chinese_simplified", "chinese_traditional", "english", "french", "italian",
      "japanese", "korean", "spanish", "portuguese">>

isLatinBasedLanguage(l) == l \in {"english", "french", "italian", "spanish", "portuguese"}

\* bip39.wordlists.  english and french share a word, as do the two chinese
\* lists; spanish holds two words that differ in an accent only.
Wordlists ==
    [l \in MnemonicLanguages |->
        CASE l = "english"             -> << <<"a","b">>, <<"a","a">>, <<"b","b","b">>, <<"b","a","a">> >>
          [] l = "french"              -> << <<"a","b">>, <<AcuteA,"a">>, <<"b",AcuteA,"b">> >>
          [] l = "italian"             -> << <<"a","b","a">>, <<"b","b","a">> >>
          [] l = "spanish"             -> << <<"b","a">>, <<"b",AcuteA>>, <<AcuteA,"b","b">> >>
          [] l = "portuguese"          -> << <<"a","a","b">>, <<"b","a","b">> >>
          [] l = "chinese_simplified"  -> << <<"zh1">>, <<"zh2">> >>
          [] l = "chinese_traditional" -> << <<"zh2">>, <<"zh3">> >>
          [] l = "japanese"            -> << <<"ja1">>, <<"ja2">> >>
          [] l = "korean"              -> << <<"ko1">>, <<"ko2">> >>]

getWordList(l) == Wordlists[IF l = Undefined THEN "english" ELSE l]

Range(s) == {s[i] : i \in 1..Len(s)}

WordSet(l) == Range(getWordList(l))

AllWords == UNION {WordSet(l) : l \in MnemonicLanguages}

-----------------------------------------------------------------------------
(* splitMnemonic, joinMnemonic *)

RECURSIVE TrimStart(_)
TrimStart(text) ==
    IF text # <<>> /\ Head(text) \in Whitespace THEN TrimStart(Tail(text)) ELSE text

RECURSIVE TrimEnd(_)
TrimEnd(text) ==
    IF text # <<>> /\ text[Len(text)] \in Whitespace
    THEN TrimEnd(SubSeq(text, 1, Len(text) - 1))
    ELSE text

\* String.prototype.trim
Trim(text) == TrimEnd(TrimStart(text))

\* String.prototype.split(/\s+/): the pieces between the maximal runs of
\* whitespace; a text without whitespace, the empty text too, is one piece.
RECURSIVE SplitRuns(_, _)
SplitRuns(text, piece) ==
    IF text = <<>> THEN <<piece>>
    ELSE IF Head(text) \in Whitespace
         THEN <<piece>> \o SplitRuns(TrimStart(text), <<>>)
         ELSE SplitRuns(Tail(text), Append(piece, Head(text)))

splitMnemonic(text) == SplitRuns(Trim(text), <<>>)

\* Array.prototype.join(sep)
RECURSIVE Join(_, _)
Join(ws, sep) ==
    IF ws = <<>> THEN <<>>
    ELSE IF Len(ws) = 1 THEN ws[1]
    ELSE ws[1] \o sep \o Join(Tail(ws), sep)

joinMnemonic(ws, l) == Join(ws, IF l = "japanese" THEN <<IdeographicSpace>> ELSE <<Space>>)

-----------------------------------------------------------------------------
(* normalizeMnemonic *)

\* new Map(wordList.map((word) => [normalizeAccents(word), word])).get(key):
\* the last word of the list with that key
RECURSIVE MapGet(_, _, _)
MapGet(wordList, n, key) ==
    IF n = 0 THEN Undefined
    ELSE IF NormalizeAccents(wordList[n]) = key THEN wordList[n]
    ELSE MapGet(wordList, n - 1, key)

formatNonAccentedCharacters(ws, l) ==
    IF isLatinBasedLanguage(l)
    THEN LET wordList == getWordList(l)
         IN  [i \in 1..Len(ws) |->
                LET found == MapGet(wordList, Len(wordList), NormalizeAccents(ws[i]))
                IN  IF found = Undefined THEN ws[i] ELSE found]
    ELSE ws

-----------------------------------------------------------------------------
(* detectLanguage *)

\* words.reduce((count, word) => (wordSet.has(word) ? count + 1 : count), 0)
RECURSIVE Score(_, _)
Score(ws, candidate) ==
    IF ws = <<>> THEN 0
    ELSE Score(SubSeq(ws, 1, Len(ws) - 1), candidate)
         + (IF ws[Len(ws)] \in WordSet(candidate) THEN 1 ELSE 0)

\* An optional list argument: Omitted, or Given(list).
Omitted == <<>>
Given(list) == <<list>>

\* candidates ?? getAllLanguages()
Scores(ws, cands) ==
    LET list == IF cands = Omitted THEN getAllLanguages ELSE cands[1]
    IN  [i \in 1..Len(list) |-> <<list[i], Score(ws, list[i])>>]

\* scores.reduce(..., [[], 0]): the leaders and the leading score after the
\* first n scores
RECURSIVE Leaders(_, _)

\* the reduction with >= for >: of equal scores, the last one leads alone
LeadersLastWins(scores, n) ==
    IF n = 0 THEN << <<>>, 0 >>
    ELSE LET prev == Leaders(scores, n - 1)
         IN  IF scores[n][2] >= prev[2] THEN << <<scores[n][1]>>, scores[n][2] >>
             ELSE prev

Leaders(scores, n) ==
    IF n = 0 THEN << <<>>, 0 >>
    ELSE LET prev == Leaders(scores, n - 1)
             candidate == scores[n][1]
             score == scores[n][2]
         IN  IF score > prev[2] THEN << <<candidate>>, score >>
             ELSE IF score = prev[2] THEN << Append(prev[1], candidate), prev[2] >>
             ELSE prev

\* detectLanguage without the test for a single winner: the first leader wins
detectLanguageTieWins(ws, cands) ==
    LET scores == Scores(ws, cands)
        final == Leaders(scores, Len(scores))
    IN  IF Len(final[1]) = 0 \/ final[2] < 1 THEN Undefined ELSE final[1][1]

detectLanguage(ws, cands) ==
    LET scores == Scores(ws, cands)
        final == Leaders(scores, Len(scores))
        winners == final[1]
        highscore == final[2]
    IN  IF Len(winners) # 1 \/ highscore < 1 THEN Undefined ELSE winners[1]

-----------------------------------------------------------------------------
(* levenshteinDistance, wordSuggestions *)

Min2(a, b) == IF a <= b THEN a ELSE b

\* The least number of insertions, deletions and substitutions of one
\* character that turn a into b.
RECURSIVE levenshteinDistance(_, _)
levenshteinDistance(a, b) ==
    IF a = <<>> THEN Len(b)
    ELSE IF b = <<>> THEN Len(a)
    ELSE Min2(Min2(levenshteinDistance(Tail(a), b) + 1,
                   levenshteinDistance(a, Tail(b)) + 1),
              levenshteinDistance(Tail(a), Tail(b))
                  + (IF Head(a) = Head(b) THEN 0 ELSE 1))

\* Array.prototype.sort((a, b) => a.distance - b.distance), a stable sort:
\* x goes behind every element that is not farther than x.
RECURSIVE InsertByDistance(_, _)
InsertByDistance(sorted, x) ==
    IF sorted = <<>> THEN <<x>>
    ELSE IF sorted[Len(sorted)].distance <= x.distance THEN Append(sorted, x)
    ELSE Append(InsertByDistance(SubSeq(sorted, 1, Len(sorted) - 1), x),
                sorted[Len(sorted)])

RECURSIVE SortByDistance(_, _)
SortByDistance(list, n) ==
    IF n = 0 THEN <<>>
    ELSE InsertByDistance(SortByDistance(list, n - 1), list[n])

\* wordSuggestions without its sort: the suggestions in the order of the list
wordSuggestionsUnsorted(typo, l) ==
    [i \in 1..Len(getWordList(l)) |->
        [distance |-> levenshteinDistance(typo, getWordList(l)[i]),
         word |-> getWordList(l)[i]]]

wordSuggestions(typo, l) ==
    LET wordList == getWordList(l)
        mapped == [i \in 1..Len(wordList) |->
                      [distance |-> levenshteinDistance(typo, wordList[i]),
                       word |-> wordList[i]]]
    IN  SortByDistance(mapped, Len(mapped))

-----------------------------------------------------------------------------
(* combineSuggestions *)

\* Infinity - d is Infinity
Minus(weight, d) == IF weight = Infinity THEN Infinity ELSE weight - d

\* The first loop of suggestionsInRange: the index of the first suggestion
\* from i on that is not below minWeight.
RECURSIVE SkipBelow(_, _, _)
SkipBelow(suggestions, i, minWeight) ==
    IF i <= Len(suggestions) /\ ~(suggestions[i].distance >= minWeight)
    THEN SkipBelow(suggestions, i + 1, minWeight)
    ELSE i

\* The second loop: the suggestions from i on, up to the first that reaches
\* maxWeight.
RECURSIVE TakeBelow(_, _, _)
TakeBelow(suggestions, i, maxWeight) ==
    IF i <= Len(suggestions) /\ ~(suggestions[i].distance >= maxWeight)
    THEN <<suggestions[i]>> \o TakeBelow(suggestions, i + 1, maxWeight)
    ELSE <<>>

suggestionsInRange(suggestions, minWeight, maxWeight) ==
    TakeBelow(suggestions, SkipBelow(suggestions, 1, minWeight), maxWeight)

\* the window of the recursion without the next suggestion's distance
remainingWeightToParent(inRange, k, maxWeight) ==
    Minus(maxWeight, inRange[k].distance)

\* the subtraction of the window the wrong way round
remainingWeightSwapped(inRange, k, maxWeight) ==
    inRange[k].distance
        - (IF k < Len(inRange) THEN inRange[k + 1].distance ELSE maxWeight)

\* (nextSuggestion?.distance ?? maxWeight) - suggestion.distance, for the
\* k-th suggestion in range
remainingWeight(inRange, k, maxWeight) ==
    Minus(IF k < Len(inRange) THEN inRange[k + 1].distance ELSE maxWeight,
          inRange[k].distance)

\* What a generator gives when iterated to its end: the values it yields, and
\* whether it then throws instead of returning.
Yields(list) == [list |-> list, threw |-> FALSE]
Throws == [list |-> <<>>, threw |-> TRUE]

RECURSIVE combineSuggestions(_, _, _)
RECURSIVE HeadLoop(_, _, _, _, _)

\* The while loop of the recursion case, from the k-th suggestion in range on.
\* index is the head position, remaining the other spots.
HeadLoop(inRange, k, index, remaining, maxWeight) ==
    IF k > Len(inRange) THEN Yields(<<>>)
    ELSE LET sub == combineSuggestions(remaining, 0, remainingWeight(inRange, k, maxWeight))
             mine == [j \in 1..Len(sub.list) |->
                         << <<index, inRange[k].word>> >> \o sub.list[j]]
         IN  IF sub.threw THEN [list |-> mine, threw |-> TRUE]
             ELSE LET later == HeadLoop(inRange, k + 1, index, remaining, maxWeight)
                  IN  [list |-> mine \o later.list, threw |-> later.threw]

\* spots is the Map in insertion order: a sequence of <<index, suggestions>>.
combineSuggestions(spots, minWeight, maxWeight) ==
    IF spots = <<>> \/ minWeight < 0 \/ maxWeight < 0 THEN Throws
    ELSE LET index == spots[1][1]
             inRange == suggestionsInRange(spots[1][2], minWeight, maxWeight)
         IN  IF Len(spots) = 1
             THEN Yields([k \in 1..Len(inRange) |-> << <<index, inRange[k].word>> >>])
             ELSE HeadLoop(inRange, 1, index,
                           SelectSeq(spots, LAMBDA e : e[1] # index), maxWeight)

\* new Map(replacementList).get(i)
RECURSIVE Replacement(_, _, _)
Replacement(replacementList, i, default) ==
    IF replacementList = <<>> THEN default
    ELSE LET last == replacementList[Len(replacementList)]
         IN  IF last[1] = i THEN last[2]
             ELSE Replacement(SubSeq(replacementList, 1, Len(replacementList) - 1),
                              i, default)

\* words.map((word, i) => replacements.get(i) ?? word)
suggestedWords(ws, replacementList) ==
    [i \in 1..Len(ws) |-> Replacement(replacementList, i, ws[i])]

spotSuggestions(ws, l) == [i \in 1..Len(ws) |-> <<i, wordSuggestions(ws[i], l)>>]

\* suggestUnvalidatedCorrections up to its final loop: the replacement lists
\* that loop will draw.
unvalidatedReplacements(ws, l) ==
    IF Len(ws) = 0 THEN Yields(<<>>)
    ELSE combineSuggestions(spotSuggestions(ws, l), 0, Infinity)

-----------------------------------------------------------------------------
(* validateMnemonic *)

\* The checksum of the model: the indices of the words add up to a multiple
\* of ChecksumModulus.
ChecksumModulus == 2

\* Phrases encode whole 32-bit units of entropy: three words each.
WordsPerUnit == 3

\* String.prototype.normalize('NFKD') on one character
NFKD(c) == IF c = IdeographicSpace THEN Space ELSE c

\* String.prototype.split(' ')
RECURSIVE SplitOnSpace(_, _)
SplitOnSpace(text, piece) ==
    IF text = <<>> THEN <<piece>>
    ELSE IF Head(text) = Space
         THEN <<piece>> \o SplitOnSpace(Tail(text), <<>>)
         ELSE SplitOnSpace(Tail(text), Append(piece, Head(text)))

IndexOf(wordList, w) == CHOOSE i \in 1..Len(wordList) : wordList[i] = w

RECURSIVE IndexSum(_, _)
IndexSum(wordList, ws) ==
    IF ws = <<>> THEN 0
    ELSE (IndexOf(wordList, Head(ws)) - 1) + IndexSum(wordList, Tail(ws))

\* bip39.validateMnemonic(mnemonic, wordlist)
bip39ValidateMnemonic(text, wordList) ==
    LET ws == SplitOnSpace([i \in 1..Len(text) |-> NFKD(text[i])], <<>>)
    IN  /\ Len(ws) % WordsPerUnit = 0
        /\ \A i \in 1..Len(ws) : ws[i] \in Range(wordList)
        /\ IndexSum(wordList, ws) % ChecksumModulus = 0

\* a validator that accepts every candidate
validateMnemonicAlways(text, l) == TRUE

validateMnemonic(text, l) ==
    IF l # Undefined THEN bip39ValidateMnemonic(text, getWordList(l))
    ELSE \E i \in 1..Len(getAllLanguages) :
            bip39ValidateMnemonic(text, getWordList(getAllLanguages[i]))

-----------------------------------------------------------------------------
(* Inputs *)

SeqsUpTo(S, n) == UNION {[1..k -> S] : k \in 0..n}

\* Misspelled words, in no list of any language.
Typos(l) == IF l = "english" THEN { <<"b">>, <<"a","b","b">> } ELSE { <<"b">> }

\* Tokens of several languages, for calls that leave the language open.
MixedTokens == { <<"a","b">>, <<"a","a">>, <<AcuteA,"a">>, <<"zh2">>, <<"zh1">>, <<"b">> }

CandidatePool == {"english", "french", "chinese_simplified", "chinese_traditional"}

\* How a phrase is typed: with single spaces, with ideographic spaces, or
\* with space around it and runs of whitespace between the words.
Layouts == {"plain", "wide", "ragged"}

Layout(ws, kind) ==
    CASE kind = "plain"  -> Join(ws, <<Space>>)
      [] kind = "wide"   -> Join(ws, <<IdeographicSpace>>)
      [] kind = "ragged" -> <<Space>> \o Join(ws, <<Space, IdeographicSpace>>) \o <<Space>>

\* Words as a user may type them: canonical, without accents, in capitals,
\* misspelled.
NoisyTokens(l) ==
    WordSet(l) \cup {NormalizeAccents(w) : w \in WordSet(l)}
               \cup { <<"A","b">>, <<"b">> }

-----------------------------------------------------------------------------
(* The calls of detectLanguage *)

InitDetect ==
    /\ pc = "call"
    /\ mnemonic = <<>> /\ language = Undefined /\ result = Undefined
    /\ normalized = <<>> /\ words = <<>> /\ lang = Undefined
    /\ pending = Yields(<<>>) /\ emitted = <<>> /\ yielded = <<>>
    /\ \/ /\ candidates = Omitted
          /\ tokens \in SeqsUpTo(AllWords \cup Typos("english"), MaxWords)
       \/ /\ candidates \in {Given(list) : list \in SeqsUpTo(CandidatePool, MaxCandidates)}
          /\ tokens \in SeqsUpTo(MixedTokens, MaxWords)

DetectLanguageCall ==
    /\ pc = "call"
    /\ result' = detectLanguage(tokens, candidates)
    /\ pc' = "returned"
    /\ UNCHANGED <<mnemonic, language, tokens, candidates, normalized, words, lang,
                   pending, emitted, yielded>>

NextDetect == DetectLanguageCall

SpecDetect == InitDetect /\ [][NextDetect]_vars

-----------------------------------------------------------------------------
(* The calls of normalizeMnemonic *)

normalizeMnemonic(text, l) ==
    LET lowered == [i \in 1..Len(splitMnemonic(text)) |-> ToLowerCase(splitMnemonic(text)[i])]
        detectedLanguage == IF l # Undefined THEN l ELSE detectLanguage(lowered, Omitted)
    IN  IF detectedLanguage = Undefined
        THEN joinMnemonic(lowered, detectedLanguage)
        ELSE joinMnemonic(formatNonAccentedCharacters(lowered, detectedLanguage),
                          detectedLanguage)

InitNormalize ==
    /\ pc = "call"
    /\ tokens = <<>> /\ candidates = Omitted /\ result = Undefined
    /\ normalized = <<>> /\ words = <<>> /\ lang = Undefined
    /\ pending = Yields(<<>>) /\ emitted = <<>> /\ yielded = <<>>
    /\ \/ \E l \in MnemonicLanguages, kind \in Layouts :
            \E ws \in SeqsUpTo(NoisyTokens(l), MaxWords) :
                language = l /\ mnemonic = Layout(ws, kind)
       \/ \E kind \in Layouts :
            \E ws \in SeqsUpTo(MixedTokens \cup { <<"A","b">> }, MaxWords) :
                language = Undefined /\ mnemonic = Layout(ws, kind)

NormalizeMnemonicCall ==
    /\ pc = "call"
    /\ normalized' = normalizeMnemonic(mnemonic, language)
    /\ pc' = "returned"
    /\ UNCHANGED <<mnemonic, language, tokens, candidates, result, words, lang,
                   pending, emitted, yielded>>

NextNormalize == NormalizeMnemonicCall

SpecNormalize == InitNormalize /\ [][NextNormalize]_vars

-----------------------------------------------------------------------------
(* suggestCorrections, iterated to its end *)

Init ==
    /\ pc = "created"
    /\ tokens = <<>> /\ candidates = Omitted /\ result = Undefined
    /\ normalized = <<>> /\ words = <<>> /\ lang = Undefined
    /\ pending = Yields(<<>>) /\ emitted = <<>> /\ yielded = <<>>
    /\ \/ \E l \in MnemonicLanguages, kind \in Layouts :
            \E ws \in SeqsUpTo(WordSet(l) \cup Typos(l), MaxWords) :
                language = l /\ mnemonic = Layout(ws, kind)
       \/ \E kind \in Layouts :
            \E ws \in SeqsUpTo(MixedTokens, MaxWords) :
                language = Undefined /\ mnemonic = Layout(ws, kind)

\* The body up to the loop: the phrase is split, the language resolved, and
\* suggestUnvalidatedCorrections builds the suggestions of every position.
Begin ==
    /\ pc = "created"
    /\ LET ws == splitMnemonic(mnemonic)
           l == IF language # Undefined THEN language ELSE detectLanguage(ws, Omitted)
       IN  /\ words' = ws
           /\ lang' = l
           /\ IF l = Undefined
              THEN pc' = "done" /\ pending' = Yields(<<>>)
              ELSE pc' = "running" /\ pending' = unvalidatedReplacements(ws, l)
    /\ UNCHANGED <<mnemonic, language, tokens, candidates, result, normalized,
                   emitted, yielded>>

\* One turn of the two nested loops: the next replacement list is put into
\* the phrase, and the phrase is yielded if it validates.
Pull ==
    /\ pc = "running"
    /\ pending.list # <<>>
    /\ LET replacementList == Head(pending.list)
           suggestion == joinMnemonic(suggestedWords(words, replacementList), lang)
       IN  /\ emitted' = Append(emitted, replacementList)
           /\ yielded' = IF validateMnemonic(suggestion, lang)
                         THEN Append(yielded, suggestion)
                         ELSE yielded
    /\ pending' = [pending EXCEPT !.list = Tail(@)]
    /\ UNCHANGED <<pc, mnemonic, language, tokens, candidates, result, normalized,
                   words, lang>>

\* combineSuggestions is exhausted: it returns, or throws its Error.
Finish ==
    /\ pc = "running"
    /\ pending.list = <<>>
    /\ pc' = IF pending.threw THEN "threw" ELSE "done"
    /\ UNCHANGED <<mnemonic, language, tokens, candidates, result, normalized,
                   words, lang, pending, emitted, yielded>>

Next == Begin \/ Pull \/ Finish

Spec == Init /\ [][Next]_vars

-----------------------------------------------------------------------------
(* Properties of detectLanguage *)

CandidateList == IF candidates = Omitted THEN getAllLanguages ELSE candidates[1]

\* the number of tokens, with multiplicity, that are words of l
Matches(l) == Cardinality({i \in 1..Len(tokens) : tokens[i] \in WordSet(l)})

AllTokensIn(l) == \A i \in 1..Len(tokens) : tokens[i] \in WordSet(l)

\* C4 as stated: detectLanguage returns l exactly if l is a candidate whose
\* score is at least 1 and above the score of every other candidate
\* language, and returns none in every other case.
C4_UniqueBestLanguage ==
    pc = "returned" =>
        /\ result \in MnemonicLanguages \cup {Undefined}
        /\ \A l \in MnemonicLanguages :
            result = l <=>
                /\ l \in Range(CandidateList)
                /\ Matches(l) >= 1
                /\ \A other \in Range(CandidateList) \ {l} : Matches(other) < Matches(l)

\* C4 amended: detectLanguage returns l exactly if some entry of the
\* candidate list is l, its score is at least 1 and above the score of every
\* other entry of the list (a second entry for l included), and returns none
\* in every other case.
C4_UniqueBestEntry ==
    pc = "returned" =>
        /\ result \in MnemonicLanguages \cup {Undefined}
        /\ \A l \in MnemonicLanguages :
            result = l <=>
                \E i \in 1..Len(CandidateList) :
                    /\ CandidateList[i] = l
                    /\ Matches(l) >= 1
                    /\ \A j \in 1..Len(CandidateList) \ {i} :
                           Matches(CandidateList[j]) < Matches(l)

\* a call with two different candidates that detects one of them, the other
\* scoring too
C4_Witness ==
    /\ pc = "returned"
    /\ candidates # Omitted
    /\ result \in MnemonicLanguages
    /\ \E other \in Range(CandidateList) \ {result} : Matches(other) >= 1

\* C5 as stated: a sequence of at least three tokens that are all words of
\* l is detected as l among all languages.
C5_OwnWordsDetected ==
    (pc = "returned" /\ candidates = Omitted /\ Len(tokens) >= 3) =>
        \A l \in MnemonicLanguages : AllTokensIn(l) => result = l

\* C5 amended: a sequence of at least three tokens that are all words of l
\* is detected as l among all languages if no other language has all of the
\* tokens too, and as none if one has.
C5_OwnWordsDetectedUnlessShared ==
    (pc = "returned" /\ candidates = Omitted /\ Len(tokens) >= 3) =>
        \A l \in MnemonicLanguages :
            AllTokensIn(l) =>
                result = IF \E other \in MnemonicLanguages \ {l} : AllTokensIn(other)
                         THEN Undefined
                         ELSE l

\* three or more words of one language, one of them shared with another
\* language, detected
C5_Witness ==
    /\ pc = "returned" /\ candidates = Omitted /\ Len(tokens) >= 3
    /\ result \in MnemonicLanguages
    /\ AllTokensIn(result)
    /\ \E other \in MnemonicLanguages \ {result} : Matches(other) >= 1

-----------------------------------------------------------------------------
(* Properties of normalizeMnemonic *)

-----------------------------------------------------------------------------
(* Properties of suggestCorrections *)

\* the phrases of n words of l that pass the checksum validator
ValidPhrases(l, n) ==
    {p \in [1..n -> WordSet(l)] : bip39ValidateMnemonic(Join(p, <<Space>>), getWordList(l))}

\* typed is p with the word at exactly one position replaced by a typo, a
\* word of no list, one edit away
OneTypo(p, typed, l) ==
    /\ Len(typed) = Len(p)
    /\ \E k \in 1..Len(p) :
        /\ typed[k] \notin WordSet(l)
        /\ levenshteinDistance(typed[k], p[k]) = 1
        /\ \A i \in 1..Len(p) \ {k} : typed[i] = p[i]

\* the phrase a replacement list stands for
PhraseOf(replacementList) == joinMnemonic(suggestedWords(words, replacementList), lang)

\* the summed distance of the chosen words from the typed ones
RECURSIVE TotalDistance(_)
TotalDistance(replacementList) ==
    IF replacementList = <<>> THEN 0
    ELSE levenshteinDistance(words[Head(replacementList)[1]], Head(replacementList)[2])
         + TotalDistance(Tail(replacementList))

\* C1: when the typed phrase is a valid phrase of the language with one word
\* replaced by a typo one edit away, the valid phrase is among the
\* suggestions once the enumeration has ended.
C1_OneTypoRecovered ==
    (pc = "done" /\ language # Undefined) =>
        \A p \in ValidPhrases(language, Len(words)) :
            OneTypo(p, words, language) =>
                \E i \in 1..Len(yielded) : yielded[i] = joinMnemonic(p, language)

\* C2 as stated: a phrase that passes the checksum validator of the language
\* is itself, unmodified, among its suggestions.
C2_ValidPhraseSuggested ==
    (pc = "done" /\ language # Undefined
        /\ bip39ValidateMnemonic(mnemonic, getWordList(language))) =>
        \E i \in 1..Len(yielded) : yielded[i] = mnemonic

\* C2 amended: a phrase that passes the checksum validator of the language
\* has among its suggestions the phrase of its own words, joined by the
\* separator of the language.
C2_ValidPhraseWordsSuggested ==
    (pc = "done" /\ language # Undefined
        /\ bip39ValidateMnemonic(mnemonic, getWordList(language))) =>
        \E i \in 1..Len(yielded) :
            yielded[i] = joinMnemonic(splitMnemonic(mnemonic), language)

\* a valid phrase, typed with the separator of its language, that has been
\* suggested back
C2_Witness ==
    /\ pc = "done" /\ language # Undefined
    /\ bip39ValidateMnemonic(mnemonic, getWordList(language))
    /\ \E i \in 1..Len(yielded) : yielded[i] = mnemonic
    /\ Len(emitted) > 1

\* C3: the phrases yielded are exactly the enumerated candidates that pass
\* the checksum validator of the resolved language, in the order of the
\* enumeration; a candidate that fails does not end the enumeration.
C3_YieldedAreTheValidCandidates ==
    pc \in {"running", "done"} /\ lang # Undefined =>
        /\ yielded = SelectSeq([i \in 1..Len(emitted) |-> PhraseOf(emitted[i])],
                               LAMBDA t : bip39ValidateMnemonic(t, getWordList(lang)))
        /\ pc = "done" => emitted = unvalidatedReplacements(words, lang).list

\* the enumeration has ended with a candidate that was yielded after one
\* that failed the validator
C3_Witness ==
    /\ pc = "done"
    /\ \E i, j \in 1..Len(emitted) :
        /\ i < j
        /\ ~bip39ValidateMnemonic(PhraseOf(emitted[i]), getWordList(lang))
        /\ bip39ValidateMnemonic(PhraseOf(emitted[j]), getWordList(lang))
        /\ yielded[Len(yielded)] = PhraseOf(emitted[j])

\* C7: iterating suggestCorrections never ends in the Error of
\* combineSuggestions.
C7_NeverThrows == pc # "threw" /\ ~pending.threw

\* a phrase of several words, enumerated to the end through the recursion
\* case, and a call without a language that detected one
C7_Witness ==
    /\ pc = "done" /\ language = Undefined /\ lang # Undefined
    /\ Len(words) >= 3 /\ Len(emitted) >= 3

\* the replacement lists for the positions after the first whose summed
\* distance is below weight
RestAssignments(weight) ==
    LET rest == [2..Len(words) -> WordSet(lang)]
        asList(f) == [i \in 1..Len(words) - 1 |-> <<i + 1, f[i + 1]>>]
    IN  {asList(f) : f \in {g \in rest : TotalDistance(asList(g)) < weight}}

\* C8: for every suggestion of the head position, the enumeration gives, with
\* that suggestion, every assignment of the remaining positions whose summed
\* distance is below the distance of the next suggestion less its own (for
\* the last suggestion: below the upper end of the window less its own).
C8_WindowExhausted ==
    (pc = "done" /\ lang # Undefined /\ Len(words) >= 2) =>
        LET head == wordSuggestions(words[1], lang)
        IN  \A k \in 1..Len(head) :
                \A rest \in RestAssignments(remainingWeight(head, k, Infinity)) :
                    \E i \in 1..Len(emitted) :
                        emitted[i] = << <<1, head[k].word>> >> \o rest

\* C9: a phrase that is empty or all whitespace is split into no words.
C9_BlankHasNoWords ==
    (pc # "created" /\ Trim(mnemonic) = <<>>) => words = <<>>

\* C10: the replacement lists of a whole enumeration come in non-decreasing
\* order of summed distance: none has a smaller sum than the one emitted
\* right before it, and so none a smaller sum than any emitted before it.
C10_AscendingTotalDistance ==
    pc = "done" =>
        \A i \in 1..Len(emitted) - 1 :
            TotalDistance(emitted[i]) <= TotalDistance(emitted[i + 1])

\* three positions enumerated to the end, with lists of at least three
\* different summed distances
C10_Witness ==
    /\ pc = "done" /\ Len(words) >= 3
    /\ \E i, j, k \in 1..Len(emitted) :
        /\ TotalDistance(emitted[i]) < TotalDistance(emitted[j])
        /\ TotalDistance(emitted[j]) < TotalDistance(emitted[k])

====
